---- MODULE Spec2Model ----
(***************************************************************************)
(* Reconciliation pass of notion-google-sync (src/src/main.ts, main):      *)
(* fetch the non-archived tasks, archive the done-and-stale ones, fetch    *)
(* the calendar events of the last month, create or update one event per   *)
(* dated task, fetch the archived tasks, delete the orphaned events, mail  *)
(* the log.  Time is counted in whole days.  The task store and the        *)
(* calendar are changed by the user only between two passes.               *)
(*                                                                         *)
(* Spec is the pass and its users.  DiffSpec is updateCalendarEvent and    *)
(* ProjSpec is convertNotionTaskToCalendarEvent, each called by itself     *)
(* over a set of arguments.  MirrorSpec is the create and the update of    *)
(* the variant that keeps a mirror store (src/unnamed/part_007), and        *)
(* DeletedPagesSpec its deleteEventsForDeletedNotionPages.  FetchSpec is   *)
(* the pagination loop of the two fetches, NormalizeSpec the normalizer of *)
(* fetchNotionPages over the records of one query, and RaceSpec the pass   *)
(* with the task store edited while it runs.  RoundTripSpec is             *)
(* updateEventInDatabase followed by getEvent, and SeedSpec is             *)
(* saveEventsToDatabase called repeatedly with one list (Database).        *)
(***************************************************************************)
EXTENDS Integers, Sequences, FiniteSets, TLC

\* ---------------------------------------------------------------- bounds
MaxUserActions == 2     \* user edits of the task store / calendar per run
MaxTicks == 1           \* days the clock may advance
Now0 == 40              \* the day the first pass runs
MaxPages == 3           \* pages a paginated listing is cut into
MaxEvents == 3          \* events in the list given to saveEventsToDatabase

\* ------------------------------------------------------ program constants
THREE_DAYS == 3
ONE_MONTH == 30

\* ------------------------------------------------------------ the data
\* Page ids as the task store returns them (hyphenated), in query order.
OrderedRaw == << <<"a", "-", "1">>, <<"b", "-", "2">> >>
RawIds == {OrderedRaw[k] : k \in 1..Len(OrderedRaw)}

NotHyphen(c) == c # "-"
\* The id of the page as it is.
NormalizeId_Raw(raw) == raw

\* page.id?.split('-').join('')
NormalizeId(raw) == SelectSeq(raw, NotHyphen)

TaskIds == {NormalizeId(r) : r \in RawIds}
ForeignId == <<"x">>
EventOrder == <<NormalizeId(OrderedRaw[1]), NormalizeId(OrderedRaw[2]), ForeignId>>
EventIds == {EventOrder[k] : k \in 1..Len(EventOrder)}

Statuses == {"Not Started", "Done", "Archived"}
\* <<start, end>> of the Date property, as day numbers; 0 is "no value".
DatePairs == {<<0, 0>>, <<5, 0>>, <<37, 0>>, <<36, 38>>}

NoTask == [status |-> "none"]
NoEvent == [id |-> <<>>]
NoRecord == [id |-> <<>>]
NoCall == [op |-> "none"]

Range(s) == {s[k] : k \in 1..Len(s)}
Ids(s) == {s[k].id : k \in 1..Len(s)}

\* ---------------------------------------------------------------- state
VARIABLES
    store,          \* task store: raw page id -> page, or NoTask
    calendar,       \* calendar service: event id -> event, or NoEvent
    now,            \* the clock, in days
    userActs,       \* user edits made so far
    quiet,          \* the previous pass completed cleanly, nothing changed since
    pc,             \* position of main()
    second,         \* this pass started in a quiet state
    resp,           \* the answer of the task store to the active-task query
    pages,          \* main: pages
    pending,        \* archiveOldTasks: archival writes in flight
    remaining,      \* archiveOldTasks: remainingTasks / main: pagesWithoutArchived
    events,         \* main: existingCalendarEvents
    i,              \* main: position of the per-task loop
    aresp,          \* the answer of the task store to the archived-task query
    archivedPages,  \* main: archivedPages
    knownIds,       \* main: allKnownNotionIds
    j,              \* deleteOrphanedGoogleEvents: position of the loop
    inserts,        \* event ids of the calendar inserts issued in this pass
    updates,        \* event ids of the calendar updates issued in this pass
    deletes,        \* event ids of the calendar deletes issued in this pass
    notFound,       \* event ids whose delete was answered 404 in this pass
    threw,          \* task ids whose create/update call ended in an error
    duplicates,     \* task ids whose insert was answered 409 duplicate in this pass
    handled,        \* task ids the per-task loop has gone through
    archiveIssued,  \* task ids whose archival write was issued in this pass
    archiveFailed,  \* task ids whose archival write failed in this pass
    allOk,          \* no service call of this pass has failed
    mailSent,       \* mails sent by this pass
    exitCode,       \* exit code of the last finished process, -1 while none
    tz,             \* timezone offset of the host, in hours east of UTC
    mirror,         \* mirror store (database.sqlite): event id -> record, or NoRecord
    arg,            \* the arguments of the function call under study
    ret             \* what that call returned or did

vars == <<store, calendar, now, userActs, quiet, pc, second, resp, pages,
          pending, remaining, events, i, aresp, archivedPages, knownIds, j,
          inserts, updates, deletes, notFound, threw, duplicates, handled, archiveIssued, archiveFailed, allOk,
          mailSent, exitCode, tz, mirror, arg, ret>>

\* What main of main.ts, lines 45-135, never touches.
otherVars == <<tz, mirror, arg, ret>>

envVars == <<store, calendar, now, userActs, otherVars>>
passVars == <<second, resp, pages, pending, remaining, events, i, aresp,
              archivedPages, knownIds, j, inserts, updates, deletes, notFound, threw, duplicates, handled,
              archiveIssued, archiveFailed, allOk, mailSent>>

mainVars == <<store, calendar, now, userActs, quiet, pc, exitCode, passVars>>

NoResp == [failed |-> FALSE, ids |-> {}, bad |-> {}]

\* The state of main before the first pass.
ProcessInit ==
    /\ now = Now0
    /\ userActs = 0
    /\ quiet = FALSE
    /\ pc = "idle"
    /\ second = FALSE
    /\ resp = NoResp
    /\ pages = <<>>
    /\ pending = {}
    /\ remaining = <<>>
    /\ events = <<>>
    /\ i = 1
    /\ aresp = NoResp
    /\ archivedPages = <<>>
    /\ knownIds = {}
    /\ j = 1
    /\ inserts = {}
    /\ updates = {}
    /\ deletes = {}
    /\ notFound = {}
    /\ threw = {}
    /\ duplicates = {}
    /\ handled = {}
    /\ archiveIssued = {}
    /\ archiveFailed = {}
    /\ allOk = TRUE
    /\ mailSent = 0
    /\ exitCode = -1

\* The state of main and of the two services before the first pass.
MainInit ==
    /\ store = [r \in RawIds |-> NoTask]
    /\ calendar = [e \in EventIds |-> NoEvent]
    /\ ProcessInit

\* The passes run on a host at UTC, without a mirror store.
Init ==
    /\ MainInit
    /\ tz = 0
    /\ mirror = [e \in EventIds |-> NoRecord]
    /\ arg = NoCall
    /\ ret = NoCall

\* No process is running: before the first pass, or after one has ended.
Idle == pc \in {"idle", "done", "crashed"}

\* ------------------------------------------------------- task normalizer
\* fetchNotionPages, the object built for one page.  The properties the
\* passes below do not vary are the same for every page.
Normalize(raw, page) ==
    [id |-> NormalizeId(raw),
     status |-> page.status,
     task |-> "Essay",
     dateStart |-> page.date[1],
     dateEnd |-> page.date[2],
     category |-> "Math",
     type |-> "",
     priority |-> "",
     description |-> "",
     location |-> ""]

\* The status filters of the two queries of main.
ActiveFilter(s) == s # "Archived"
ArchivedFilter(s) == s = "Archived"

\* The pages each query matches, in query order.
MatchingActive ==
    SelectSeq(OrderedRaw, LAMBDA r : store[r] # NoTask /\ ActiveFilter(store[r].status))
MatchingArchived ==
    SelectSeq(OrderedRaw, LAMBDA r : store[r] # NoTask /\ ArchivedFilter(store[r].status))

\* fetchNotionPages: a failed query, or one malformed page among the
\* results, rejects inside the try block and the catch returns [].
FetchNotionPages(rawSeq, failed, bad) ==
    IF failed \/ (\E k \in 1..Len(rawSeq) : rawSeq[k] \in bad)
    THEN <<>>
    ELSE [k \in 1..Len(rawSeq) |-> Normalize(rawSeq[k], store[rawSeq[k]])]

\* -------------------------------------------------------- event projector
\* The date strings of the task store.  '' is 0, a date-only string
\* 'YYYY-MM-DD' is its day number (1..99), and a string with a time of day
\* 'YYYY-MM-DDTHH:00:00' is built by DateTime from the day, the hour and the
\* UTC offset the string ends with (NoZone when it ends with none, Zulu
\* when it ends with Z as the strings of toISOString do).
NoZone == 0
Zone(offset) == offset + 13
Zulu == 26
DateTime(day, hour, zone) == day + 100 * (hour + 1) + 10000 * zone
DayOf(dateStr) == dateStr % 100
HourOf(dateStr) == ((dateStr \div 100) % 100) - 1
ZoneOf(dateStr) == dateStr \div 10000
OffsetOf(dateStr) == IF ZoneOf(dateStr) = Zulu THEN 0 ELSE ZoneOf(dateStr) - Zone(0)

\* hasTime: /\d{2}:\d{2}(?::\d{2})?/.test(str)
HasTime(dateStr) == dateStr >= 100

\* new Date(dateStr), in hours since the epoch: a date-only string is read
\* as midnight UTC, a string with a time and no offset as local time.
ParseDate(dateStr) ==
    IF ~HasTime(dateStr) THEN 24 * DayOf(dateStr)
    ELSE IF ZoneOf(dateStr) = NoZone
         THEN 24 * DayOf(dateStr) + HourOf(dateStr) - tz
         ELSE 24 * DayOf(dateStr) + HourOf(dateStr) - OffsetOf(dateStr)

\* formatDate: the local getters of the parsed date, and the local offset.
FormatDate(dateStr, includeTime) ==
    LET local == ParseDate(dateStr) + tz
        day == local \div 24
        hours == local % 24
    IN  IF ~includeTime THEN day ELSE DateTime(day, hours, Zone(tz))

NonEmptyStr(s) == s # ""

RECURSIVE Join(_)
\* Array.prototype.join(' ')
Join(words) ==
    IF words = <<>> THEN ""
    ELSE IF Len(words) = 1 THEN words[1]
    ELSE words[1] \o " " \o Join(Tail(words))

\* isDateTime decided by the start date alone.
IsDateTime_StartOnly(dateStart, dateEnd) == HasTime(dateStart)

\* convertNotionTaskToCalendarEvent: isDateTime
IsDateTime(dateStart, dateEnd) ==
    (dateEnd # 0 /\ HasTime(dateEnd)) \/ HasTime(dateStart)

\* eventRequest without the id of the page.
EventRequest_NoId(id, location, description, summary, date) ==
    [id |-> <<>>, location |-> location, description |-> description,
     summary |-> summary, start |-> date.start, end |-> date.end]

\* convertNotionTaskToCalendarEvent: eventRequest
EventRequest(id, location, description, summary, date) ==
    [id |-> id, location |-> location, description |-> description,
     summary |-> summary, start |-> date.start, end |-> date.end]

\* convertNotionTaskToCalendarEvent.  `className` is destructured from the
\* page, which has no such key, so it is undefined and filtered out.
Project(page) ==
    LET className == ""
        summary == Join(SelectSeq(<<page.type, className, page.task>>, NonEmptyStr))
        eventDescription ==
            "Status: " \o page.status \o "\n" \o "Priority: " \o page.priority
            \o (IF page.description # "" THEN "\n" \o page.description ELSE "")
        hasEndDate == page.dateEnd # 0
        isDateTime == IsDateTime(page.dateStart, page.dateEnd)
        endSrc == IF hasEndDate THEN page.dateEnd ELSE page.dateStart
        date ==
            IF isDateTime
            THEN [start |-> [dateTime |-> FormatDate(page.dateStart, TRUE), timeZone |-> "UTC"],
                  end |-> [dateTime |-> FormatDate(endSrc, TRUE), timeZone |-> "UTC"]]
            ELSE [start |-> [date |-> FormatDate(page.dateStart, FALSE)],
                  end |-> [date |-> FormatDate(endSrc, FALSE)]]
    IN  EventRequest(page.id, page.location, eventDescription, summary, date)

\* ------------------------------------------------------------- the diff
fieldsToCompare == {"summary", "description", "start", "end", "location"}

\* The fields of an event that hold text; start and end hold objects.
TextFields == {"summary", "description", "location"}

\* null in a text field.  A key that is undefined is left out of the record.
Null == "<null>"

\* _.pick(ev, fieldsToCompare)
Pick(ev) == [f \in fieldsToCompare \cap DOMAIN ev |-> ev[f]]

\* normalizeFalsy's test on one value: '' / null.
Falsy(ev, f) == f \in TextFields /\ ev[f] \in {"", Null}

\* normalizeFalsy: _.pickBy(obj, v => !(v === '' || v === null || v === undefined))
normalizeFalsy(obj) ==
    [f \in {g \in DOMAIN obj : ~Falsy(obj, g)} |-> obj[f]]

\* fieldsUpdated without normalizeFalsy.
FieldsUpdated_Raw(updatedEvent, existingEvent) ==
    Pick(updatedEvent) # Pick(existingEvent)

\* updateCalendarEvent: fieldsUpdated
FieldsUpdated(updatedEvent, existingEvent) ==
    normalizeFalsy(Pick(updatedEvent)) # normalizeFalsy(Pick(existingEvent))

\* ------------------------------------------------------ calendar service
\* Day on which an event ends.
EndDay(ev) == IF "date" \in DOMAIN ev.end THEN ev.end.date ELSE ev.end.dateTime
StartDay(ev) == IF "date" \in DOMAIN ev.start THEN ev.start.date ELSE ev.start.dateTime

Live == {e \in EventIds : calendar[e] # NoEvent}

IdIndex(id) == CHOOSE k \in 1..Len(EventOrder) : EventOrder[k] = id

RECURSIVE SortByStart(_)
\* orderBy: 'startTime'
SortByStart(S) ==
    IF S = {} THEN <<>>
    ELSE LET m == CHOOSE e \in S : \A o \in S :
                     StartDay(e) * 10 + IdIndex(e.id) <= StartDay(o) * 10 + IdIndex(o.id)
         IN <<m>> \o SortByStart(S \ {m})

\* fetchRelevantGoogleCalendarEvents: events.list with timeMin one month
\* back returns the events that end after timeMin.
RelevantEvents ==
    SortByStart({calendar[e] : e \in {x \in Live : EndDay(calendar[x]) > now - ONE_MONTH}})

\* existingEventMap.has / .get
HasEvent(id) == \E k \in 1..Len(events) : events[k].id = id
GetEvent(id) == events[CHOOSE k \in 1..Len(events) : events[k].id = id]

\* --------------------------------------------------------- archival policy
\* shouldArchive with a strict comparison.
ShouldArchive_Strict(task) ==
    LET date == IF task.dateEnd # 0 THEN task.dateEnd ELSE task.dateStart
    IN  /\ task.status = "Done"
        /\ date # 0
        /\ now - date > THREE_DAYS

\* archiveOldTasks: shouldArchive.  An empty date string parses to an
\* invalid date, whose difference to now compares false.
ShouldArchive(task) ==
    LET date == IF task.dateEnd # 0 THEN task.dateEnd ELSE task.dateStart
    IN  /\ task.status = "Done"
        /\ date # 0
        /\ now - date >= THREE_DAYS

RawOf(id) == CHOOSE r \in RawIds : NormalizeId(r) = id

PageOf(id) == pages[CHOOSE k \in 1..Len(pages) : pages[k].id = id]

\* allKnownNotionIds without the archived tasks.
AllKnownNotionIds_ActiveOnly(active, archived) == Ids(active)

\* main: allKnownNotionIds
AllKnownNotionIds(active, archived) == Ids(active) \cup Ids(archived)

\* ------------------------------------------------------------ the pass
\* A new process starts with nothing but the two services' state.
FreshPass ==
    /\ resp' = NoResp
    /\ pages' = <<>>
    /\ pending' = {}
    /\ remaining' = <<>>
    /\ events' = <<>>
    /\ i' = 1
    /\ aresp' = NoResp
    /\ archivedPages' = <<>>
    /\ knownIds' = {}
    /\ j' = 1
    /\ inserts' = {}
    /\ updates' = {}
    /\ deletes' = {}
    /\ notFound' = {}
    /\ threw' = {}
    /\ duplicates' = {}
    /\ handled' = {}
    /\ archiveIssued' = {}
    /\ archiveFailed' = {}
    /\ allOk' = TRUE
    /\ mailSent' = 0

\* An exception leaves main(): the process dies of the unhandled rejection.
Crash ==
    /\ pc' = "crashed"
    /\ exitCode' = 1
    /\ allOk' = FALSE
    /\ quiet' = FALSE

\* main, line 56: the query for the tasks whose status is not Archived.
StartPass ==
    /\ Idle
    /\ LET matching == MatchingActive
       IN \E failed \in BOOLEAN, bad \in SUBSET Range(matching) :
            /\ failed => bad = {}
            /\ resp' = [failed |-> failed, ids |-> Range(matching), bad |-> bad]
            /\ pages' = FetchNotionPages(matching, failed, bad)
            /\ allOk' = ~failed
    /\ second' = quiet
    /\ quiet' = FALSE
    /\ pc' = "archive"
    /\ exitCode' = -1
    /\ pending' = {} /\ remaining' = <<>> /\ events' = <<>> /\ i' = 1
    /\ aresp' = NoResp /\ archivedPages' = <<>> /\ knownIds' = {} /\ j' = 1
    /\ inserts' = {} /\ updates' = {} /\ deletes' = {} /\ threw' = {}
    /\ notFound' = {} /\ duplicates' = {}
    /\ handled' = {} /\ archiveIssued' = {} /\ archiveFailed' = {}
    /\ mailSent' = 0
    /\ UNCHANGED envVars

\* archiveOldTasks up to the first await of every callback: the tasks that
\* do not qualify are pushed in order, the writes of the others are issued.
ArchiveDispatch ==
    /\ pc = "archive"
    /\ remaining' = SelectSeq(pages, LAMBDA t : ~ShouldArchive(t))
    /\ pending' = {pages[k].id : k \in {n \in 1..Len(pages) : ShouldArchive(pages[n])}}
    /\ archiveIssued' = pending'
    /\ pc' = "archiving"
    /\ UNCHANGED <<envVars, quiet, second, resp, pages, events, i, aresp,
                   archivedPages, knownIds, j, inserts, updates, deletes, notFound, threw, duplicates,
                   handled, archiveFailed, allOk, mailSent, exitCode>>

\* The archival write that clears the Date property as well.
ArchiveOk_ClearDate(t) ==
    /\ pc = "archiving"
    /\ t \in pending
    /\ store' = [store EXCEPT ![RawOf(t)] = [status |-> "Archived", date |-> <<0, 0>>]]
    /\ pending' = pending \ {t}
    /\ UNCHANGED <<otherVars, calendar, now, userActs, quiet, pc, second, resp, pages,
                   remaining, events, i, aresp, archivedPages, knownIds, j,
                   inserts, updates, deletes, notFound, threw, duplicates, handled,
                   archiveIssued, archiveFailed, allOk, mailSent, exitCode>>

\* The archived task is pushed to remainingTasks as well.
ArchiveOk_Push(t) ==
    /\ pc = "archiving"
    /\ t \in pending
    /\ store' = [store EXCEPT ![RawOf(t)].status = "Archived"]
    /\ remaining' = Append(remaining, PageOf(t))
    /\ pending' = pending \ {t}
    /\ UNCHANGED <<otherVars, calendar, now, userActs, quiet, pc, second, resp, pages,
                   events, i, aresp, archivedPages, knownIds, j,
                   inserts, updates, deletes, notFound, threw, duplicates, handled, archiveIssued,
                   archiveFailed, allOk, mailSent, exitCode>>

\* notionClient.pages.update resolves: the task is Archived in the store.
ArchiveOk(t) ==
    /\ pc = "archiving"
    /\ t \in pending
    /\ store' = [store EXCEPT ![RawOf(t)].status = "Archived"]
    /\ pending' = pending \ {t}
    /\ UNCHANGED <<otherVars, calendar, now, userActs, quiet, pc, second, resp, pages,
                   remaining, events, i, aresp, archivedPages, knownIds, j,
                   inserts, updates, deletes, notFound, threw, duplicates, handled, archiveIssued,
                   archiveFailed, allOk, mailSent, exitCode>>

\* The catch block without the push of the task.
ArchiveFail_Drop(t) ==
    /\ pc = "archiving"
    /\ t \in pending
    /\ pending' = pending \ {t}
    /\ archiveFailed' = archiveFailed \cup {t}
    /\ allOk' = FALSE
    /\ UNCHANGED <<envVars, quiet, pc, second, resp, pages, remaining, events,
                   i, aresp, archivedPages, knownIds, j, inserts, updates,
                   deletes, notFound, threw, duplicates, handled, archiveIssued, mailSent, exitCode>>

\* notionClient.pages.update rejects: logged, the task is kept.
ArchiveFail(t) ==
    /\ pc = "archiving"
    /\ t \in pending
    /\ remaining' = Append(remaining, PageOf(t))
    /\ pending' = pending \ {t}
    /\ archiveFailed' = archiveFailed \cup {t}
    /\ allOk' = FALSE
    /\ UNCHANGED <<envVars, quiet, pc, second, resp, pages, events, i, aresp,
                   archivedPages, knownIds, j, inserts, updates, deletes, notFound, threw, duplicates,
                   handled, archiveIssued, mailSent, exitCode>>

\* The events are fetched while archival writes are in flight.
FetchEventsOk_Early ==
    /\ pc = "archiving"
    /\ events' = RelevantEvents
    /\ i' = 1
    /\ pc' = "loop"
    /\ UNCHANGED <<envVars, quiet, second, resp, pages, pending, remaining,
                   aresp, archivedPages, knownIds, j, inserts, updates, deletes, notFound,
                   threw, duplicates, handled, archiveIssued, archiveFailed, allOk, mailSent,
                   exitCode>>

\* main, line 64: fetchRelevantGoogleCalendarEvents returns.
FetchEventsOk ==
    /\ pc = "archiving"
    /\ pending = {}
    /\ events' = RelevantEvents
    /\ i' = 1
    /\ pc' = "loop"
    /\ UNCHANGED <<envVars, quiet, second, resp, pages, pending, remaining,
                   aresp, archivedPages, knownIds, j, inserts, updates, deletes, notFound,
                   threw, duplicates, handled, archiveIssued, archiveFailed, allOk, mailSent,
                   exitCode>>

\* events.list rejects: nothing in main catches it.
FetchEventsFail ==
    /\ pc = "archiving"
    /\ pending = {}
    /\ Crash
    /\ UNCHANGED <<envVars, second, resp, pages, pending, remaining, events, i,
                   aresp, archivedPages, knownIds, j, inserts, updates, deletes, notFound,
                   threw, duplicates, handled, archiveIssued, archiveFailed, mailSent>>

\* What the per-task loop leaves alone.
loopFrame == <<otherVars, store, now, userActs, second, resp, pages, pending, remaining,
               events, aresp, archivedPages, knownIds, j, deletes, notFound,
               archiveIssued, archiveFailed, mailSent>>

InLoop == pc = "loop" /\ i <= Len(remaining)

\* A page without a start date ends main with a return.
SkipNoDate_Return ==
    /\ InLoop
    /\ remaining[i].dateStart = 0
    /\ handled' = handled \cup {remaining[i].id}
    /\ pc' = "done"
    /\ exitCode' = 0
    /\ UNCHANGED <<loopFrame, calendar, quiet, i, inserts, updates, threw, duplicates,
                   allOk>>

\* main, lines 74-79: a page without a start date is logged and skipped.
SkipNoDate ==
    /\ InLoop
    /\ remaining[i].dateStart = 0
    /\ handled' = handled \cup {remaining[i].id}
    /\ i' = i + 1
    /\ UNCHANGED <<loopFrame, calendar, quiet, pc, inserts, updates, threw, duplicates,
                   allOk, exitCode>>

ToUpdate == InLoop /\ remaining[i].dateStart # 0 /\ HasEvent(remaining[i].id)
ToCreate == InLoop /\ remaining[i].dateStart # 0 /\ ~HasEvent(remaining[i].id)

\* updateCalendarEvent: the five fields are equal, no call is made.
UpdateUnchanged ==
    /\ ToUpdate
    /\ ~FieldsUpdated(Project(remaining[i]), GetEvent(remaining[i].id))
    /\ handled' = handled \cup {remaining[i].id}
    /\ i' = i + 1
    /\ UNCHANGED <<loopFrame, calendar, quiet, pc, inserts, updates, threw, duplicates,
                   allOk, exitCode>>

\* updateCalendarEvent: events.update answers 2xx.
UpdateOk ==
    /\ ToUpdate
    /\ FieldsUpdated(Project(remaining[i]), GetEvent(remaining[i].id))
    /\ calendar' = [calendar EXCEPT ![remaining[i].id] = Project(remaining[i])]
    /\ updates' = updates \cup {remaining[i].id}
    /\ handled' = handled \cup {remaining[i].id}
    /\ i' = i + 1
    /\ UNCHANGED <<loopFrame, quiet, pc, inserts, threw, duplicates, allOk, exitCode>>

\* updateCalendarEvent: events.update resolves with another status: logged.
UpdateNon2xx ==
    /\ ToUpdate
    /\ FieldsUpdated(Project(remaining[i]), GetEvent(remaining[i].id))
    /\ updates' = updates \cup {remaining[i].id}
    /\ handled' = handled \cup {remaining[i].id}
    /\ allOk' = FALSE
    /\ i' = i + 1
    /\ UNCHANGED <<loopFrame, calendar, quiet, pc, inserts, threw, duplicates, exitCode>>

\* updateCalendarEvent: events.update rejects: logged and thrown again.
UpdateError ==
    /\ ToUpdate
    /\ FieldsUpdated(Project(remaining[i]), GetEvent(remaining[i].id))
    /\ updates' = updates \cup {remaining[i].id}
    /\ threw' = threw \cup {remaining[i].id}
    /\ handled' = handled \cup {remaining[i].id}
    /\ Crash
    /\ UNCHANGED <<loopFrame, calendar, i, inserts, duplicates>>

\* createCalendarEvent / inserEvent: events.insert answers 2xx.
CreateOk ==
    /\ ToCreate
    /\ Project(remaining[i]).id \in EventIds
    /\ calendar[Project(remaining[i]).id] = NoEvent
    /\ calendar' = [calendar EXCEPT ![Project(remaining[i]).id] = Project(remaining[i])]
    /\ inserts' = inserts \cup {Project(remaining[i]).id}
    /\ handled' = handled \cup {remaining[i].id}
    /\ i' = i + 1
    /\ UNCHANGED <<loopFrame, quiet, pc, updates, threw, duplicates, allOk, exitCode>>

\* The 409 answered by an update of the event that holds the id.
CreateDuplicate_Retry ==
    /\ ToCreate
    /\ calendar[remaining[i].id] # NoEvent
    /\ calendar' = [calendar EXCEPT ![remaining[i].id] = Project(remaining[i])]
    /\ inserts' = inserts \cup {remaining[i].id}
    /\ updates' = updates \cup {remaining[i].id}
    /\ duplicates' = duplicates \cup {remaining[i].id}
    /\ handled' = handled \cup {remaining[i].id}
    /\ allOk' = FALSE
    /\ i' = i + 1
    /\ UNCHANGED <<loopFrame, quiet, pc, threw, exitCode>>

\* createCalendarEvent: the id is taken, events.insert rejects with 409
\* duplicate: logged, not thrown again.
CreateDuplicate ==
    /\ ToCreate
    /\ Project(remaining[i]).id \in EventIds
    /\ calendar[Project(remaining[i]).id] # NoEvent
    /\ inserts' = inserts \cup {Project(remaining[i]).id}
    /\ duplicates' = duplicates \cup {remaining[i].id}
    /\ handled' = handled \cup {remaining[i].id}
    /\ allOk' = FALSE
    /\ i' = i + 1
    /\ UNCHANGED <<loopFrame, calendar, quiet, pc, updates, threw, exitCode>>

\* inserEvent: events.insert resolves with another status: logged.
CreateNon2xx ==
    /\ ToCreate
    /\ inserts' = inserts \cup {Project(remaining[i]).id}
    /\ handled' = handled \cup {remaining[i].id}
    /\ allOk' = FALSE
    /\ i' = i + 1
    /\ UNCHANGED <<loopFrame, calendar, quiet, pc, updates, threw, duplicates, exitCode>>

\* createCalendarEvent: events.insert rejects with any other error: logged
\* and thrown again.
CreateError ==
    /\ ToCreate
    /\ inserts' = inserts \cup {Project(remaining[i]).id}
    /\ threw' = threw \cup {remaining[i].id}
    /\ handled' = handled \cup {remaining[i].id}
    /\ Crash
    /\ UNCHANGED <<loopFrame, calendar, i, updates, duplicates>>

\* main, lines 95-111: the query for the Archived tasks and the known ids.
FetchArchived ==
    /\ pc = "loop"
    /\ i > Len(remaining)
    /\ LET matching == MatchingArchived
       IN \E failed \in BOOLEAN, bad \in SUBSET Range(matching) :
            /\ failed => bad = {}
            /\ aresp' = [failed |-> failed, ids |-> Range(matching), bad |-> bad]
            /\ archivedPages' = FetchNotionPages(matching, failed, bad)
            /\ allOk' = (allOk /\ ~failed)
    /\ knownIds' = AllKnownNotionIds(remaining, archivedPages')
    /\ j' = 1
    /\ pc' = "cleanup"
    /\ UNCHANGED <<envVars, quiet, second, resp, pages, pending, remaining,
                   events, i, inserts, updates, deletes, notFound, threw, duplicates, handled,
                   archiveIssued, archiveFailed, mailSent, exitCode>>

cleanupFrame == <<otherVars, store, now, userActs, quiet, pc, second, resp, pages, pending,
                  remaining, events, i, aresp, archivedPages, knownIds,
                  inserts, updates, threw, duplicates, handled, archiveIssued,
                  archiveFailed, mailSent, exitCode>>

InCleanup == pc = "cleanup" /\ j <= Len(events)

\* deleteOrphanedGoogleEvents: the id of the event is known.
KeepKnown ==
    /\ InCleanup
    /\ events[j].id \in knownIds
    /\ j' = j + 1
    /\ UNCHANGED <<cleanupFrame, calendar, deletes, notFound, allOk>>

\* deleteOrphanedGoogleEvents: events.delete resolves.
DeleteOk ==
    /\ InCleanup
    /\ events[j].id \notin knownIds
    /\ calendar[events[j].id] # NoEvent
    /\ calendar' = [calendar EXCEPT ![events[j].id] = NoEvent]
    /\ deletes' = deletes \cup {events[j].id}
    /\ j' = j + 1
    /\ UNCHANGED <<cleanupFrame, allOk, notFound>>

\* deleteOrphanedGoogleEvents: events.delete rejects: logged.
DeleteError ==
    /\ InCleanup
    /\ events[j].id \notin knownIds
    /\ deletes' = deletes \cup {events[j].id}
    /\ allOk' = FALSE
    /\ j' = j + 1
    /\ UNCHANGED <<cleanupFrame, calendar, notFound>>

\* The 404 leaves deleteOrphanedGoogleEvents and main as an exception.
DeleteNotFound_Throw ==
    /\ InCleanup
    /\ events[j].id \notin knownIds
    /\ calendar[events[j].id] = NoEvent
    /\ deletes' = deletes \cup {events[j].id}
    /\ notFound' = notFound \cup {events[j].id}
    /\ Crash
    /\ UNCHANGED <<otherVars, store, calendar, now, userActs, second, resp, pages,
                   pending, remaining, events, i, aresp, archivedPages, knownIds,
                   j, inserts, updates, threw, duplicates, handled, archiveIssued,
                   archiveFailed, mailSent>>

\* deleteOrphanedGoogleEvents: the event is gone, events.delete rejects
\* with 404: logged as a warning.
DeleteNotFound ==
    /\ InCleanup
    /\ events[j].id \notin knownIds
    /\ calendar[events[j].id] = NoEvent
    /\ deletes' = deletes \cup {events[j].id}
    /\ notFound' = notFound \cup {events[j].id}
    /\ j' = j + 1
    /\ UNCHANGED <<cleanupFrame, calendar, allOk>>

\* main, lines 120-134: the log is read and mailed, main returns.
SendMailOk ==
    /\ pc = "cleanup"
    /\ j > Len(events)
    /\ mailSent' = mailSent + 1
    /\ pc' = "done"
    /\ exitCode' = 0
    /\ quiet' = (allOk /\ resp.bad = {} /\ aresp.bad = {})
    /\ UNCHANGED <<envVars, second, resp, pages, pending, remaining, events, i,
                   aresp, archivedPages, knownIds, j, inserts, updates, deletes, notFound,
                   threw, duplicates, handled, archiveIssued, archiveFailed, allOk>>

\* main, lines 125-126: readFileSync or sendMail throws.
SendMailFail ==
    /\ pc = "cleanup"
    /\ j > Len(events)
    /\ Crash
    /\ UNCHANGED <<envVars, second, resp, pages, pending, remaining, events, i,
                   aresp, archivedPages, knownIds, j, inserts, updates, deletes, notFound,
                   threw, duplicates, handled, archiveIssued, archiveFailed, mailSent>>

\* ------------------------------------------------------------- the user
\* Between two passes the user edits the task store or the calendar.
UserStep ==
    /\ Idle
    /\ userActs < MaxUserActions
    /\ userActs' = userActs + 1
    /\ quiet' = FALSE
    /\ pc' = "idle"
    /\ second' = FALSE
    /\ FreshPass
    /\ UNCHANGED <<now, exitCode, otherVars>>

UserPutTask(r, s, d) ==
    /\ UserStep
    /\ store[r] # [status |-> s, date |-> d]
    /\ store' = [store EXCEPT ![r] = [status |-> s, date |-> d]]
    /\ UNCHANGED calendar

UserDeleteTask(r) ==
    /\ UserStep
    /\ store[r] # NoTask
    /\ store' = [store EXCEPT ![r] = NoTask]
    /\ UNCHANGED calendar

UserEditEvent(e) ==
    /\ UserStep
    /\ calendar[e] # NoEvent
    /\ calendar[e].summary # "edited"
    /\ calendar' = [calendar EXCEPT ![e].summary = "edited"]
    /\ UNCHANGED store

ForeignEvent ==
    [id |-> ForeignId, location |-> "", description |-> "",
     summary |-> "Lunch", start |-> [date |-> 38], end |-> [date |-> 38]]

UserAddEvent ==
    /\ UserStep
    /\ calendar[ForeignId] = NoEvent
    /\ calendar' = [calendar EXCEPT ![ForeignId] = ForeignEvent]
    /\ UNCHANGED store

\* Someone else deletes the orphan in the calendar after the pass has
\* fetched it and before the pass deletes it.
EventVanishes ==
    /\ InCleanup
    /\ events[j].id \notin knownIds
    /\ calendar[events[j].id] # NoEvent
    /\ calendar' = [calendar EXCEPT ![events[j].id] = NoEvent]
    /\ UNCHANGED <<cleanupFrame, j, deletes, notFound, allOk>>

Tick ==
    /\ Idle
    /\ now < Now0 + MaxTicks
    /\ now' = now + 1
    /\ quiet' = FALSE
    /\ pc' = "idle"
    /\ second' = FALSE
    /\ FreshPass
    /\ UNCHANGED <<store, calendar, userActs, exitCode, otherVars>>

\* ------------------------------------------------------ the specification
Engine ==
    \/ StartPass
    \/ ArchiveDispatch
    \/ \E t \in TaskIds : ArchiveOk(t)
    \/ \E t \in TaskIds : ArchiveFail(t)
    \/ FetchEventsOk
    \/ FetchEventsFail
    \/ SkipNoDate
    \/ UpdateUnchanged
    \/ UpdateOk
    \/ UpdateNon2xx
    \/ UpdateError
    \/ CreateOk
    \/ CreateDuplicate
    \/ CreateNon2xx
    \/ CreateError
    \/ FetchArchived
    \/ KeepKnown
    \/ DeleteOk
    \/ DeleteError
    \/ DeleteNotFound
    \/ SendMailOk
    \/ SendMailFail

User ==
    \/ \E r \in RawIds, s \in Statuses, d \in DatePairs : UserPutTask(r, s, d)
    \/ \E r \in RawIds : UserDeleteTask(r)
    \/ \E e \in EventIds : UserEditEvent(e)
    \/ UserAddEvent
    \/ EventVanishes
    \/ Tick

Next == Engine \/ User

Spec == Init /\ [][Next]_vars

\* A pass has run to its end with every call answered and every record
\* well-formed.
CleanPass == pc = "done" /\ allOk /\ resp.bad = {} /\ aresp.bad = {}

\* The scheduler keeps starting passes, a started process keeps running, and
\* no outage lasts for ever: again and again a pass runs cleanly to its end.
FairSpec == Spec /\ WF_vars(Engine) /\ []<>CleanPass

\* ------------------------------------------- updateCalendarEvent by itself
\* The calls updateCalendarEvent(auth, calendarId, updatedEvent,
\* existingEvent) over events whose text fields hold a text, '', null or
\* are undefined, and where the existing event carries fields of the
\* calendar service that the candidate does not have.
Undefined == "<undefined>"

\* An event object with the keys whose value is not undefined.
MakeEvent(id, summary, description, location, start, etag) ==
    LET all == [id |-> id, summary |-> summary, description |-> description,
                location |-> location, start |-> start,
                end |-> [date |-> 16], etag |-> etag]
    IN  [k \in {x \in DOMAIN all : x \in {"id", "start", "end"} \/ all[x] # Undefined}
            |-> all[k]]

DiffSummaries == {"Essay", "Exam Essay", "", Null, Undefined}
DiffLocations == {"Room 1", "", Null, Undefined}
DiffStarts == {[date |-> 15], [date |-> 16]}

UpdatedEvents ==
    {MakeEvent(id, s, "Status: Done\nPriority: ", l, d, Undefined) :
        id \in {EventOrder[1], <<>>}, s \in DiffSummaries, l \in DiffLocations,
        d \in DiffStarts}

ExistingEvents ==
    {MakeEvent(EventOrder[1], s, ds, l, d, e) :
        s \in DiffSummaries, l \in DiffLocations, d \in DiffStarts,
        ds \in {"Status: Done\nPriority: ", "Status: Not Started\nPriority: "},
        e \in {"3181161784712000", Undefined}}

DiffInit ==
    /\ MainInit
    /\ tz = 0
    /\ mirror = [e \in EventIds |-> NoRecord]
    /\ arg \in {[op |-> "updateCalendarEvent", updatedEvent |-> u, existingEvent |-> x] :
                   u \in UpdatedEvents, x \in ExistingEvents}
    /\ ret = NoCall

\* updateCalendarEvent, line 391: the candidate has no id.
UpdateNoId ==
    /\ ret = NoCall
    /\ arg.updatedEvent.id = <<>>
    /\ ret' = [op |-> "updateCalendarEvent", call |-> FALSE]
    /\ UNCHANGED <<mainVars, tz, mirror, arg>>

\* updateCalendarEvent, lines 403-415: no field has changed, logged.
UpdateNoCall ==
    /\ ret = NoCall
    /\ arg.updatedEvent.id # <<>>
    /\ ~FieldsUpdated(arg.updatedEvent, arg.existingEvent)
    /\ ret' = [op |-> "updateCalendarEvent", call |-> FALSE]
    /\ UNCHANGED <<mainVars, tz, mirror, arg>>

\* updateCalendarEvent, lines 417-424: events.update is called.
UpdateCall ==
    /\ ret = NoCall
    /\ arg.updatedEvent.id # <<>>
    /\ FieldsUpdated(arg.updatedEvent, arg.existingEvent)
    /\ ret' = [op |-> "updateCalendarEvent", call |-> TRUE]
    /\ UNCHANGED <<mainVars, tz, mirror, arg>>

DiffNext == UpdateNoId \/ UpdateNoCall \/ UpdateCall

DiffSpec == DiffInit /\ [][DiffNext]_vars

\* ------------------------- convertNotionTaskToCalendarEvent by itself
\* The calls convertNotionTaskToCalendarEvent(page) on hosts west of, at and
\* east of UTC, over pages whose type, category and title are set or empty
\* and whose dates are date-only, with a time of day, or with a time of day
\* and a UTC offset.
HostOffsets == {-5, 0, 2}

ProjDates ==
    {15, DateTime(15, 10, NoZone), DateTime(15, 23, Zone(2)),
     16, DateTime(16, 1, NoZone)}

ProjPages ==
    {[id |-> EventOrder[1], status |-> "Not Started", task |-> t,
      dateStart |-> ds, dateEnd |-> de, category |-> c, type |-> ty,
      priority |-> "", description |-> "", location |-> ""] :
        t \in {"Essay", ""}, c \in {"Math", ""}, ty \in {"Exam", ""},
        ds \in ProjDates, de \in ProjDates \cup {0}}

ProjInit ==
    /\ MainInit
    /\ tz \in HostOffsets
    /\ mirror = [e \in EventIds |-> NoRecord]
    /\ arg \in {[op |-> "convertNotionTaskToCalendarEvent", page |-> p] : p \in ProjPages}
    /\ ret = NoCall

\* convertNotionTaskToCalendarEvent returns eventRequest.
Convert ==
    /\ ret = NoCall
    /\ ret' = [op |-> "convertNotionTaskToCalendarEvent", event |-> Project(arg.page)]
    /\ UNCHANGED <<mainVars, tz, mirror, arg>>

ProjNext == Convert

ProjSpec == ProjInit /\ [][ProjNext]_vars

\* ------------------------------ the create and update of the mirror store
\* createCalendarEvent and updateCalendarEvent of the variant that keeps the
\* mirror store (src/unnamed/part_007), called for one page as its main
\* does: getEvent(page.id) decides between the two.  Before a run
\* destroyOldEvents drops the records of the events that have started.
MirrorPages ==
    {Normalize(r, [status |-> st, date |-> d]) :
        r \in RawIds, st \in {"Not Started", "Done"},
        d \in {<<37, 0>>, <<36, 38>>, <<39, 41>>}}

\* saveEventsToDatabase / updateEventInDatabase: the row of an event.  The
\* start and end columns hold dates, in hours since the epoch.
RecordOf(event) ==
    LET allDay == "dateTime" \notin DOMAIN event.start
    IN  [id |-> event.id,
         summary |-> event.summary,
         description |-> event.description,
         location |-> event.location,
         start |-> ParseDate(IF allDay THEN event.start.date ELSE event.start.dateTime),
         end |-> ParseDate(IF allDay THEN event.end.date ELSE event.end.dateTime),
         allDay |-> allDay]

\* Date.prototype.toISOString
ToISOString(date) == DateTime(date \div 24, date % 24, Zulu)

\* getEvent: the event object built from the row.
EventOfRecord(record) ==
    [id |-> record.id,
     description |-> record.description,
     summary |-> record.summary,
     location |-> IF record.location \in {"", Null} THEN "" ELSE record.location,
     start |-> IF record.allDay
               THEN [date |-> DayOf(ToISOString(record.start))]
               ELSE [dateTime |-> ToISOString(record.start), timeZone |-> "UTC"],
     end |-> IF record.allDay
             THEN [date |-> DayOf(ToISOString(record.end))]
             ELSE [dateTime |-> ToISOString(record.end), timeZone |-> "UTC"]]

MirrorInit ==
    /\ MainInit
    /\ tz = 0
    /\ mirror = [e \in EventIds |-> NoRecord]
    /\ arg = NoCall
    /\ ret = NoCall

\* What the calls of this section leave alone.
mirrorFrame == <<store, now, userActs, quiet, pc, exitCode, passVars, tz>>

\* What a call is recorded with: its page, its answer and the mirror store
\* it started from.
Outcome(op, page, answer) ==
    [op |-> op, id |-> page.id, answer |-> answer, before |-> mirror]

\* updateCalendarEvent of this variant: fieldsUpdated is
\* !_.isEqual(_.pick(event, ..), _.pick(existingEvent, ..))
MirrorFieldsUpdated(event, existingEvent) == Pick(event) # Pick(existingEvent)

ToMirrorCreate(page) == mirror[page.id] = NoRecord
ToMirrorUpdate(page) ==
    /\ mirror[page.id] # NoRecord
    /\ MirrorFieldsUpdated(Project(page), EventOfRecord(mirror[page.id]))

\* inserEvent: events.insert answers 2xx, the event is saved.
MirrorCreateOk(page) ==
    /\ ToMirrorCreate(page)
    /\ calendar[page.id] = NoEvent
    /\ calendar' = [calendar EXCEPT ![page.id] = Project(page)]
    /\ mirror' = [mirror EXCEPT ![page.id] = RecordOf(Project(page))]
    /\ arg' = [op |-> "createCalendarEvent", event |-> Project(page)]
    /\ ret' = Outcome("createCalendarEvent", page, "2xx")
    /\ UNCHANGED mirrorFrame

\* createCalendarEvent: the id is taken, 409 duplicate: logged.
MirrorCreateDuplicate(page) ==
    /\ ToMirrorCreate(page)
    /\ calendar[page.id] # NoEvent
    /\ arg' = [op |-> "createCalendarEvent", event |-> Project(page)]
    /\ ret' = Outcome("createCalendarEvent", page, "409")
    /\ UNCHANGED <<mirrorFrame, calendar, mirror>>

\* inserEvent: another status, `throw new Error()`, or events.insert
\* rejects: logged and thrown again by createCalendarEvent.
MirrorCreateError(page) ==
    /\ ToMirrorCreate(page)
    /\ arg' = [op |-> "createCalendarEvent", event |-> Project(page)]
    /\ \E answer \in {"non2xx", "error"} :
        ret' = Outcome("createCalendarEvent", page, answer)
    /\ UNCHANGED <<mirrorFrame, calendar, mirror>>

\* updateCalendarEvent: no field has changed, no call.
MirrorUpdateUnchanged(page) ==
    /\ mirror[page.id] # NoRecord
    /\ ~MirrorFieldsUpdated(Project(page), EventOfRecord(mirror[page.id]))
    /\ arg' = [op |-> "updateCalendarEvent", event |-> Project(page)]
    /\ ret' = Outcome("updateCalendarEvent", page, "none")
    /\ UNCHANGED <<mirrorFrame, calendar, mirror>>

\* updateCalendarEvent: events.update answers 2xx, the row is updated.
MirrorUpdateOk(page) ==
    /\ ToMirrorUpdate(page)
    /\ calendar[page.id] # NoEvent
    /\ calendar' = [calendar EXCEPT ![page.id] = Project(page)]
    /\ mirror' = [mirror EXCEPT ![page.id] = RecordOf(Project(page))]
    /\ arg' = [op |-> "updateCalendarEvent", event |-> Project(page)]
    /\ ret' = Outcome("updateCalendarEvent", page, "2xx")
    /\ UNCHANGED mirrorFrame

\* The row is updated although events.update answered another status.
MirrorUpdateNon2xx_Saved(page) ==
    /\ ToMirrorUpdate(page)
    /\ mirror' = [mirror EXCEPT ![page.id] = RecordOf(Project(page))]
    /\ arg' = [op |-> "updateCalendarEvent", event |-> Project(page)]
    /\ ret' = Outcome("updateCalendarEvent", page, "non2xx")
    /\ UNCHANGED <<mirrorFrame, calendar>>

\* updateCalendarEvent: events.update answers another status: logged.
MirrorUpdateNon2xx(page) ==
    /\ ToMirrorUpdate(page)
    /\ arg' = [op |-> "updateCalendarEvent", event |-> Project(page)]
    /\ ret' = Outcome("updateCalendarEvent", page, "non2xx")
    /\ UNCHANGED <<mirrorFrame, calendar, mirror>>

\* updateCalendarEvent: events.update rejects: logged and thrown again.
MirrorUpdateError(page) ==
    /\ ToMirrorUpdate(page)
    /\ arg' = [op |-> "updateCalendarEvent", event |-> Project(page)]
    /\ ret' = Outcome("updateCalendarEvent", page, "error")
    /\ UNCHANGED <<mirrorFrame, calendar, mirror>>

\* destroyOldEvents: the rows whose start lies before now are deleted.
DestroyOldEvents ==
    /\ \E e \in EventIds : mirror[e] # NoRecord /\ mirror[e].start < 24 * now
    /\ mirror' = [e \in EventIds |->
                     IF mirror[e] # NoRecord /\ mirror[e].start < 24 * now
                     THEN NoRecord ELSE mirror[e]]
    /\ arg' = NoCall
    /\ ret' = NoCall
    /\ UNCHANGED <<mirrorFrame, calendar>>

\* destroyEndedEvents: today is the local midnight of now.
Today == ((24 * now + tz) \div 24) * 24 - tz

\* destroyEndedEvents: the rows whose end lies before today are deleted.
DestroyEndedEvents ==
    /\ \E e \in EventIds : mirror[e] # NoRecord /\ mirror[e].end < Today
    /\ mirror' = [e \in EventIds |->
                     IF mirror[e] # NoRecord /\ mirror[e].end < Today
                     THEN NoRecord ELSE mirror[e]]
    /\ arg' = NoCall
    /\ ret' = NoCall
    /\ UNCHANGED <<mirrorFrame, calendar>>

MirrorNext ==
    \/ \E page \in MirrorPages : MirrorCreateOk(page)
    \/ \E page \in MirrorPages : MirrorCreateDuplicate(page)
    \/ \E page \in MirrorPages : MirrorCreateError(page)
    \/ \E page \in MirrorPages : MirrorUpdateUnchanged(page)
    \/ \E page \in MirrorPages : MirrorUpdateOk(page)
    \/ \E page \in MirrorPages : MirrorUpdateNon2xx(page)
    \/ \E page \in MirrorPages : MirrorUpdateError(page)
    \/ DestroyOldEvents
    \/ DestroyEndedEvents

MirrorSpec == MirrorInit /\ [][MirrorNext]_vars

\* ----------------------- deleteEventsForDeletedNotionPages by itself
\* The calls deleteEventsForDeletedNotionPages(pages, auth, calendarId) of
\* the variant that keeps the mirror store (src/unnamed/part_007), over
\* mirror stores that hold the rows of some events, calendars in which some
\* of those events are gone already, and lists of pages.  `ret` holds the
\* position of the call: the rows found, the deletes in flight and answered.
StoredEvent(e) ==
    IF e = ForeignId THEN ForeignEvent
    ELSE Project(Normalize(RawOf(e), [status |-> "Not Started", date |-> <<37, 0>>]))

DeletedPagesInit ==
    /\ ProcessInit
    /\ store = [r \in RawIds |-> NoTask]
    /\ tz = 0
    /\ \E stored \in SUBSET EventIds, gone \in SUBSET EventIds :
        /\ gone \subseteq stored
        /\ mirror = [e \in EventIds |->
                        IF e \in stored THEN RecordOf(StoredEvent(e)) ELSE NoRecord]
        /\ calendar = [e \in EventIds |->
                          IF e \in stored \ gone THEN StoredEvent(e) ELSE NoEvent]
    /\ arg \in {[op |-> "deleteEventsForDeletedNotionPages", pages |-> p] :
                   p \in SUBSET TaskIds}
    /\ ret = NoCall

\* What the calls of this section leave alone.
deletedPagesFrame == <<store, now, userActs, quiet, pc, exitCode, passVars, tz, arg>>

\* findEventsForDeletedNotionPages: the rows whose id is the id of no page.
FindEventsForDeletedNotionPages(pageIds) ==
    {e \in EventIds : mirror[e] # NoRecord /\ e \notin pageIds}

\* deleteEventsForDeletedNotionPages up to its second await: the rows are
\* found, every callback of forEach has issued its events.delete, and
\* destroyEvents is called.
DeleteDispatch ==
    /\ ret = NoCall
    /\ ret' = [op |-> "deleteEventsForDeletedNotionPages",
               eventsToDelete |-> FindEventsForDeletedNotionPages(arg.pages),
               inFlight |-> FindEventsForDeletedNotionPages(arg.pages),
               removed |-> {},
               notFound |-> {},
               rejected |-> {},
               returned |-> FALSE]
    /\ UNCHANGED <<deletedPagesFrame, calendar, mirror>>

\* events.delete resolves: the event is removed from the calendar.
DeleteResolves(e) ==
    /\ ret # NoCall
    /\ e \in ret.inFlight
    /\ calendar[e] # NoEvent
    /\ calendar' = [calendar EXCEPT ![e] = NoEvent]
    /\ ret' = [ret EXCEPT !.inFlight = @ \ {e}, !.removed = @ \cup {e}]
    /\ UNCHANGED <<deletedPagesFrame, mirror>>

\* events.delete rejects with 404: the event was gone already.  Nothing
\* catches the rejection of the callback.
DeleteRejects404(e) ==
    /\ ret # NoCall
    /\ e \in ret.inFlight
    /\ calendar[e] = NoEvent
    /\ ret' = [ret EXCEPT !.inFlight = @ \ {e}, !.notFound = @ \cup {e}]
    /\ UNCHANGED <<deletedPagesFrame, calendar, mirror>>

\* events.delete rejects with another error: the event stays.  Nothing
\* catches the rejection of the callback.
DeleteRejects(e) ==
    /\ ret # NoCall
    /\ e \in ret.inFlight
    /\ calendar[e] # NoEvent
    /\ ret' = [ret EXCEPT !.inFlight = @ \ {e}, !.rejected = @ \cup {e}]
    /\ UNCHANGED <<deletedPagesFrame, calendar, mirror>>

\* destroyEvents resolves: the rows found are deleted, the call returns.
DestroyEvents ==
    /\ ret # NoCall
    /\ ~ret.returned
    /\ mirror' = [e \in EventIds |->
                     IF e \in ret.eventsToDelete THEN NoRecord ELSE mirror[e]]
    /\ ret' = [ret EXCEPT !.returned = TRUE]
    /\ UNCHANGED <<deletedPagesFrame, calendar>>

DeletedPagesNext ==
    \/ DeleteDispatch
    \/ \E e \in EventIds : DeleteResolves(e)
    \/ \E e \in EventIds : DeleteRejects404(e)
    \/ \E e \in EventIds : DeleteRejects(e)
    \/ DestroyEvents

DeletedPagesSpec == DeletedPagesInit /\ [][DeletedPagesNext]_vars

\* ------------------------------------------------ the paginated fetches
\* The loops of fetchNotionPages (databases.query) and of
\* fetchRelevantGoogleCalendarEvents (events.list) against a service that
\* holds the listing cut into pages.  The cursor of page k is k; `ret` holds
\* the variables of the loop and the requests and responses so far.
PageItems == {<<>>, <<"t1">>, <<"t2", "t3">>}
Listings == UNION {[1..n -> PageItems] : n \in 1..MaxPages}
NoCursor == 0

\* What the service answers to a request that carries `cursor`.
ListResponse(listing, cursor) ==
    LET k == IF cursor = NoCursor THEN 1 ELSE cursor
    IN  [items |-> listing[k],
         has_more |-> k < Len(listing),
         next |-> IF k < Len(listing) THEN k + 1 ELSE NoCursor]

\* The loop that asks for no second page.
NextCursor_None(op, response) == NoCursor

\* cursor = response.has_more ? response.next_cursor! : undefined
\* pageToken = res.data.nextPageToken || undefined
NextCursor(op, response) ==
    IF op = "fetchNotionPages"
    THEN (IF response.has_more THEN response.next ELSE NoCursor)
    ELSE response.next

FetchInit ==
    /\ MainInit
    /\ tz = 0
    /\ mirror = [e \in EventIds |-> NoRecord]
    /\ arg \in {[op |-> o, listing |-> l] :
                   o \in {"fetchNotionPages", "fetchRelevantGoogleCalendarEvents"},
                   l \in Listings}
    /\ ret = [cursor |-> NoCursor, all |-> <<>>, log |-> <<>>,
              inFlight |-> FALSE, returned |-> FALSE]

\* The body of the do-while up to its await: the request is sent with the
\* cursor of the loop.
FetchRequest ==
    /\ ~ret.returned
    /\ ~ret.inFlight
    /\ ret.log = <<>> \/ ret.cursor # NoCursor
    /\ ret' = [ret EXCEPT !.inFlight = TRUE,
                          !.log = Append(@, [kind |-> "request", cursor |-> ret.cursor])]
    /\ UNCHANGED <<mainVars, tz, mirror, arg>>

\* The request resolves: the items are appended, the cursor is taken over.
FetchResponse ==
    /\ ret.inFlight
    /\ LET response == ListResponse(arg.listing, ret.cursor)
       IN ret' = [ret EXCEPT !.inFlight = FALSE,
                             !.all = @ \o response.items,
                             !.cursor = NextCursor(arg.op, response),
                             !.log = Append(@, [kind |-> "response",
                                                next |-> response.next])]
    /\ UNCHANGED <<mainVars, tz, mirror, arg>>

\* while (cursor) ends the loop, the items are returned.
FetchReturn ==
    /\ ~ret.returned
    /\ ~ret.inFlight
    /\ ret.log # <<>>
    /\ ret.cursor = NoCursor
    /\ ret' = [ret EXCEPT !.returned = TRUE]
    /\ UNCHANGED <<mainVars, tz, mirror, arg>>

FetchNext == FetchRequest \/ FetchResponse \/ FetchReturn

FetchSpec == FetchInit /\ [][FetchNext]_vars

\* ------------------------------------------------ the normalizer by itself
\* The second half of fetchNotionPages over the results of a query: two
\* records, the first with each of Type, Priority, Description and Location
\* either missing from its properties, empty, or set; the second complete.
\* A property with an empty value is held as '' (select: null, rich_text: []).
OptionalNames == {"Type", "Priority", "Description", "Location"}

CompleteProperties ==
    [Status |-> "Not Started", Task |-> "Essay", Date |-> <<37, 0>>, Class |-> "Math",
     Type |-> "Exam", Priority |-> "High", Description |-> "Chapter 3",
     Location |-> "Room 1"]

\* The properties of a record without the keys in `missing` and with the
\* values of the keys in `empty` empty.
PropertiesWith(missing, empty) ==
    [n \in DOMAIN CompleteProperties \ missing |->
        IF n \in empty THEN "" ELSE CompleteProperties[n]]

QueryResults ==
    {<< [id |-> OrderedRaw[1], properties |-> PropertiesWith(missing, empty)],
        [id |-> OrderedRaw[2], properties |-> CompleteProperties] >> :
        missing \in SUBSET OptionalNames, empty \in SUBSET OptionalNames}

\* String.prototype.toLowerCase on the names of the Priority options.
ToLowerCase(s) ==
    IF s = "High" THEN "high" ELSE IF s = "Low" THEN "low" ELSE s

\* properties[name] is undefined for a name the record does not have, and
\* reading .select, .rich_text, .title, .date or .status of it is a TypeError.
ThrowsTypeError(page) ==
    \E n \in {"Status", "Type", "Task", "Date", "Class", "Priority",
               "Description", "Location"} : n \notin DOMAIN page.properties

\* The object the callback of allPages.map returns for a page.
TaskOfPage(page) ==
    [id |-> NormalizeId(page.id),
     status |-> page.properties["Status"],
     task |-> page.properties["Task"],
     dateStart |-> page.properties["Date"][1],
     dateEnd |-> page.properties["Date"][2],
     category |-> page.properties["Class"],
     type |-> page.properties["Type"],
     priority |-> ToLowerCase(page.properties["Priority"]),
     description |-> page.properties["Description"],
     location |-> page.properties["Location"]]

NormalizeInit ==
    /\ MainInit
    /\ tz = 0
    /\ mirror = [e \in EventIds |-> NoRecord]
    /\ arg \in {[op |-> "fetchNotionPages", results |-> q] : q \in QueryResults}
    /\ ret = NoCall

\* Promise.all resolves: every callback has returned its object.
NormalizeResolves ==
    /\ ret = NoCall
    /\ \A k \in 1..Len(arg.results) : ~ThrowsTypeError(arg.results[k])
    /\ ret' = [op |-> "fetchNotionPages", caught |-> FALSE,
               tasks |-> [k \in 1..Len(arg.results) |-> TaskOfPage(arg.results[k])]]
    /\ UNCHANGED <<mainVars, tz, mirror, arg>>

\* A callback throws, Promise.all rejects: the catch logs and returns [].
NormalizeCatches ==
    /\ ret = NoCall
    /\ \E k \in 1..Len(arg.results) : ThrowsTypeError(arg.results[k])
    /\ ret' = [op |-> "fetchNotionPages", caught |-> TRUE, tasks |-> <<>>]
    /\ UNCHANGED <<mainVars, tz, mirror, arg>>

NormalizeNext == NormalizeResolves \/ NormalizeCatches

NormalizeSpec == NormalizeInit /\ [][NormalizeNext]_vars

\* ---------------------------------------- edits of the task store in a pass
\* The user changes the status of a task while a pass is between its query
\* for the tasks that are not Archived and its query for the Archived ones.
UserRestatus(r, s) ==
    /\ pc \in {"archive", "archiving", "loop"}
    /\ userActs < MaxUserActions
    /\ store[r] # NoTask
    /\ store[r].status # s
    /\ store' = [store EXCEPT ![r].status = s]
    /\ userActs' = userActs + 1
    /\ UNCHANGED <<calendar, now, quiet, pc, exitCode, passVars, otherVars>>

RaceNext ==
    \/ Next
    \/ \E r \in RawIds, s \in Statuses : UserRestatus(r, s)

RaceSpec == Init /\ [][RaceNext]_vars

\* -------------------------------- updateEventInDatabase and getEvent
\* The call updateEventInDatabase(E) for every event E the projector
\* produces, on a mirror store that holds an older row of E or none, and
\* the calls getEvent(id) that follow it.
RoundTripInit ==
    /\ MainInit
    /\ tz \in HostOffsets
    /\ arg \in {[op |-> "updateEventInDatabase", event |-> Project(p)] : p \in ProjPages}
    /\ \E older \in BOOLEAN :
        mirror = [e \in EventIds |->
                     IF older /\ e = arg.event.id
                     THEN RecordOf(StoredEvent(e)) ELSE NoRecord]
    /\ ret = NoCall

\* updateEventInDatabase: findOrCreate has made the row.
UpdateEventCreates ==
    /\ ret = NoCall
    /\ mirror[arg.event.id] = NoRecord
    /\ mirror' = [mirror EXCEPT ![arg.event.id] = RecordOf(arg.event)]
    /\ ret' = [op |-> "updateEventInDatabase", created |-> TRUE]
    /\ UNCHANGED <<mainVars, tz, arg>>

\* updateEventInDatabase: findOrCreate has found the row, which is updated.
UpdateEventUpdates ==
    /\ ret = NoCall
    /\ mirror[arg.event.id] # NoRecord
    /\ mirror' = [mirror EXCEPT ![arg.event.id] = RecordOf(arg.event)]
    /\ ret' = [op |-> "updateEventInDatabase", created |-> FALSE]
    /\ UNCHANGED <<mainVars, tz, arg>>

\* getEvent: findByPk has found the row, the event is built from it.
GetEventFound(id) ==
    /\ ret # NoCall
    /\ ret.op = "updateEventInDatabase"
    /\ mirror[id] # NoRecord
    /\ ret' = [op |-> "getEvent", id |-> id, found |-> TRUE,
               event |-> EventOfRecord(mirror[id])]
    /\ UNCHANGED <<mainVars, tz, mirror, arg>>

\* getEvent: findByPk has found no row, null is returned.
GetEventNull(id) ==
    /\ ret # NoCall
    /\ ret.op = "updateEventInDatabase"
    /\ mirror[id] = NoRecord
    /\ ret' = [op |-> "getEvent", id |-> id, found |-> FALSE, event |-> NoEvent]
    /\ UNCHANGED <<mainVars, tz, mirror, arg>>

RoundTripNext ==
    \/ UpdateEventCreates
    \/ UpdateEventUpdates
    \/ \E id \in EventIds : GetEventFound(id)
    \/ \E id \in EventIds : GetEventNull(id)

RoundTripSpec == RoundTripInit /\ [][RoundTripNext]_vars

\* ------------------------------------------- saveEventsToDatabase by itself
\* The call saveEventsToDatabase(events), made twice in a row with the same
\* events, on a mirror store that holds the rows of some events.  The list
\* may name an event twice and may hold an event whose row is older.  `ret`
\* holds the position of the loop, the store the first call started from,
\* the store it left, and the rows made for every id.
EditedEvent(e) == [StoredEvent(e) EXCEPT !.summary = "edited"]

EventLists ==
    UNION {[1..n -> {StoredEvent(e) : e \in EventIds} \cup {EditedEvent(e) : e \in EventIds}] :
              n \in 1..MaxEvents}

SeedInit ==
    /\ MainInit
    /\ tz = 0
    /\ \E stored \in SUBSET EventIds :
        mirror = [e \in EventIds |->
                     IF e \in stored THEN RecordOf(StoredEvent(e)) ELSE NoRecord]
    /\ arg \in {[op |-> "saveEventsToDatabase", events |-> l] : l \in EventLists}
    /\ ret = [call |-> 1, k |-> 1, before |-> mirror, once |-> mirror,
              made |-> [e \in EventIds |-> 0]]

InSave == ret.call <= 2 /\ ret.k <= Len(arg.events)

\* The row of the event is replaced by the event.
SaveCreates_Upsert ==
    /\ InSave
    /\ mirror' = [mirror EXCEPT ![arg.events[ret.k].id] = RecordOf(arg.events[ret.k])]
    /\ ret' = [ret EXCEPT !.k = @ + 1,
                          !.made[arg.events[ret.k].id] =
                              IF mirror[arg.events[ret.k].id] = NoRecord THEN @ + 1 ELSE @]
    /\ UNCHANGED <<mainVars, tz, arg>>

\* Event.findOrCreate finds no row with the id and makes one of the defaults.
SaveCreates ==
    /\ InSave
    /\ mirror[arg.events[ret.k].id] = NoRecord
    /\ mirror' = [mirror EXCEPT ![arg.events[ret.k].id] = RecordOf(arg.events[ret.k])]
    /\ ret' = [ret EXCEPT !.k = @ + 1, !.made[arg.events[ret.k].id] = @ + 1]
    /\ UNCHANGED <<mainVars, tz, arg>>

\* Event.findOrCreate finds the row with the id and leaves it.
SaveFinds ==
    /\ InSave
    /\ mirror[arg.events[ret.k].id] # NoRecord
    /\ ret' = [ret EXCEPT !.k = @ + 1]
    /\ UNCHANGED <<mainVars, tz, mirror, arg>>

\* The loop is through: the call returns (and is made once more).
SaveReturns ==
    /\ ret.call <= 2
    /\ ret.k > Len(arg.events)
    /\ ret' = [ret EXCEPT !.call = @ + 1, !.k = 1,
                          !.once = IF ret.call = 1 THEN mirror ELSE @]
    /\ UNCHANGED <<mainVars, tz, mirror, arg>>

SeedNext == SaveCreates \/ SaveFinds \/ SaveReturns

SeedSpec == SeedInit /\ [][SeedNext]_vars

\* ========================================================= the properties

\* The events orphan cleanup is to delete: the fetched events whose id is
\* in neither the active nor the archived task list of this pass.
OrphanIds == {e \in Ids(events) : e \notin Ids(remaining) \cup Ids(archivedPages)}

\* The tasks the store holds as active and dated.
ActiveDated ==
    {r \in RawIds : /\ store[r] # NoTask
                    /\ store[r].status # "Archived"
                    /\ store[r].date[1] # 0}

\* C1: a pass that starts right after a pass that ran to completion with
\* every call answered and every record well-formed, with no change of the
\* task store (nor of the calendar or the clock) in between, issues no
\* calendar insert and no calendar update.
C1_Idempotence == second => (inserts = {} /\ updates = {})

\* C2: when the create or update call of a task fails with an error, no
\* exception leaves the per-task processing: the process does not die and
\* does not end with a non-zero exit code.
C2_FailureIsolation == threw # {} => (pc # "crashed" /\ exitCode # 1)

\* C3: when the query for the active tasks fails the pass issues no calendar
\* insert, update or delete; when the query for the archived tasks fails it
\* issues no delete.
C3_FailFast ==
    /\ resp.failed => (inserts = {} /\ updates = {} /\ deletes = {})
    /\ aresp.failed => deletes = {}

\* C4: delete is issued only for orphans, for every orphan once cleanup has
\* gone through the fetched events, and never for the event of a task that
\* is Archived in the task store.
C4_OrphanDecision ==
    /\ deletes \subseteq OrphanIds
    /\ (pc = "done" => deletes = OrphanIds)
    /\ \A e \in deletes \cap TaskIds : store[RawOf(e)].status # "Archived"

\* C5: no pass deletes an event whose id was never the id of a task.
C5_OnlyMirroredDeleted == \A e \in deletes : e \in TaskIds

\* C6: a query that was answered returns a Task for every well-formed
\* record of the answer, whatever records of the answer are malformed.
C6_MalformedIsolation ==
    /\ ~resp.failed => Ids(pages) = {NormalizeId(r) : r \in resp.ids \ resp.bad}
    /\ ~aresp.failed =>
           Ids(archivedPages) = {NormalizeId(r) : r \in aresp.ids \ aresp.bad}

\* C10: after a pass in which every service call succeeded, every active
\* task with a start date (and a well-formed record) has an event under its
\* id whose summary, description, start, end and location are those of its
\* projection.
C10_Convergence ==
    (pc = "done" /\ allOk) =>
        \A r \in ActiveDated \ resp.bad :
            /\ calendar[NormalizeId(r)] # NoEvent
            /\ \A f \in fieldsToCompare :
                   calendar[NormalizeId(r)][f] = Project(Normalize(r, store[r]))[f]

\* The date the Archival Policy measures the age of a task by.
RefDate(start, end) == IF end # 0 THEN end ELSE start

\* C7: the archival write is issued for exactly the fetched tasks whose
\* status is Done and whose dateEnd (dateStart when there is no dateEnd) lies
\* at least 3 days back; a task in another status is never archived.
C7_ArchivalThreshold ==
    pc \notin {"idle", "archive"} =>
        \A k \in 1..Len(pages) :
            pages[k].id \in archiveIssued <=>
                /\ pages[k].status = "Done"
                /\ RefDate(pages[k].dateStart, pages[k].dateEnd) # 0
                /\ now - RefDate(pages[k].dateStart, pages[k].dateEnd) >= 3

\* A task exactly 3 days old has been archived while a Done task whose
\* dateEnd is 2 days old (its dateStart 4 days old) has not.
C7_Witness ==
    \E k, m \in 1..Len(pages) :
        /\ pages[k].id \in archiveIssued
        /\ now - RefDate(pages[k].dateStart, pages[k].dateEnd) = 3
        /\ pages[m].status = "Done"
        /\ now - pages[m].dateEnd = 2
        /\ now - pages[m].dateStart = 4
        /\ pages[m].id \notin archiveIssued

\* C8: a task whose archival write failed stays in the working set of the
\* pass, is gone through by the per-task loop, is in KnownIds, leaves the
\* store record Done and old enough to qualify again; the process never dies
\* inside the Archival Policy.
C8_ArchivalFailOpen ==
    /\ \A t \in archiveFailed :
        /\ t \in Ids(remaining)
        /\ pc \in {"cleanup", "done"} => (t \in handled /\ t \in knownIds)
        /\ store[RawOf(t)].status = "Done"
        /\ now - RefDate(store[RawOf(t)].date[1], store[RawOf(t)].date[2]) >= 3
    /\ pc = "crashed" => pending = {}

\* A pass has completed in which the archival write of a task failed and
\* the task got its event created.
C8_Witness ==
    /\ pc = "done"
    /\ \E t \in archiveFailed : t \in inserts /\ calendar[t] # NoEvent

\* The policy has archived the task in this pass.
ArchivedByPolicy(t) ==
    t \in archiveIssued /\ t \notin pending /\ t \notin archiveFailed

\* C9 (original statement): once the Archival Policy has archived a task whose
\* event is live, the event is eventually deleted.
C9_Retirement ==
    \A t \in TaskIds :
        (ArchivedByPolicy(t) /\ calendar[t] # NoEvent) ~> (calendar[t] = NoEvent)

\* C9 (amended): the event of a task in the archived-task list of a pass is
\* not retired: the pass issues no insert, update or delete for it, and if
\* it was fetched it is still live; a delete is issued only for an id that
\* is in neither the active nor the archived task list of the pass.
C9_ArchivedEventKept ==
    /\ \A t \in Ids(archivedPages) :
        /\ t \notin inserts \cup updates \cup deletes
        /\ t \in Ids(events) => calendar[t] # NoEvent
    /\ \A e \in deletes : e \notin Ids(remaining) /\ e \notin Ids(archivedPages)

\* A pass has completed in which the policy archived a task whose event
\* was fetched, and the event is still live.
C9_Witness ==
    /\ pc = "done"
    /\ \E t \in TaskIds :
        /\ ArchivedByPolicy(t)
        /\ t \in Ids(archivedPages)
        /\ t \in Ids(events)
        /\ calendar[t] # NoEvent

\* Position of a task in the working set of the pass.
IndexOf(t) == CHOOSE k \in 1..Len(remaining) : remaining[k].id = t

\* C11: a task whose insert was answered 409 duplicate gets no other calendar
\* call in the pass (no update, no delete), its create call raises no error,
\* the loop moves on past it and goes through every task after it, and its
\* pair stays untracked: the event lookup of the pass has no entry for it.
C11_DuplicateConflict ==
    \A t \in duplicates :
        /\ t \in inserts /\ t \notin updates /\ t \notin deletes
        /\ t \notin threw /\ t \in handled
        /\ pc = "loop" => i > IndexOf(t)
        /\ pc \in {"cleanup", "done"} => Ids(remaining) \subseteq handled
        /\ ~HasEvent(t)

\* A pass has completed in which the insert of one task was answered 409
\* duplicate and the event of the task after it was created.
C11_Witness ==
    /\ pc = "done"
    /\ \E t \in duplicates, u \in inserts \ duplicates :
        /\ IndexOf(t) < IndexOf(u)
        /\ calendar[t] # NoEvent
        /\ calendar[u] = Project(remaining[IndexOf(u)])

\* C12: every insert of the pass carries as event id the id of a task the
\* loop has gone through, which is the page id of a fetched task without its
\* hyphens; every live event is held under the id it carries, and no two
\* live events carry the id of the same task.
C12_OneEventPerTask ==
    /\ \A e \in inserts :
        /\ e \in handled
        /\ \E r \in resp.ids : e = SelectSeq(r, LAMBDA c : c # "-")
    /\ \A e \in Live : calendar[e].id = e
    /\ \A t \in TaskIds : Cardinality({e \in Live : calendar[e].id = t}) <= 1

\* A pass has completed that created the event of one task under the id of
\* the task and found the event an earlier pass created for another task.
C12_Witness ==
    /\ pc = "done"
    /\ \E t \in inserts, u \in handled \ inserts :
        /\ calendar[t] # NoEvent
        /\ calendar[t].id = remaining[IndexOf(t)].id
        /\ HasEvent(u)
        /\ calendar[u] # NoEvent

\* What a field of an event holds for the comparison: nothing when the key
\* is missing or a text field is '' or null.
Held(ev, f) ==
    IF f \notin DOMAIN ev THEN <<>>
    ELSE IF f \in {"summary", "description", "location"} /\ ev[f] \in {"", Null} THEN <<>>
    ELSE <<ev[f]>>

\* C13: for a candidate with an id, updateCalendarEvent calls events.update
\* if and only if the candidate and the existing event differ in what one of
\* summary, description, start, end, location holds, where '', null and
\* undefined all hold nothing; no other field decides, and with the five
\* fields equal no call is made.
C13_FieldLevelDiff ==
    (ret # NoCall /\ arg.updatedEvent.id # <<>>) =>
        (ret.call <=>
            \E f \in {"summary", "description", "start", "end", "location"} :
                Held(arg.updatedEvent, f) # Held(arg.existingEvent, f))

\* A call returned without an update although the existing event has an
\* etag the candidate lacks, its location is undefined where the candidate's
\* is '', and its summary is null where the candidate's is ''.
C13_Witness ==
    /\ ret # NoCall
    /\ ~ret.call
    /\ arg.updatedEvent.id # <<>>
    /\ "etag" \in DOMAIN arg.existingEvent
    /\ "location" \notin DOMAIN arg.existingEvent
    /\ "location" \in DOMAIN arg.updatedEvent
    /\ arg.updatedEvent.location = ""
    /\ "summary" \in DOMAIN arg.existingEvent
    /\ arg.existingEvent.summary = Null
    /\ "summary" \in DOMAIN arg.updatedEvent
    /\ arg.updatedEvent.summary = ""

\* C14: a task without a start date gets no insert and no update call and
\* raises no error; the loop has gone through exactly the tasks before its
\* position, and a pass that has left the loop has gone through every task.
C14_SkipNoDate ==
    /\ \A k \in 1..Len(remaining) :
        remaining[k].dateStart = 0 =>
            remaining[k].id \notin inserts \cup updates \cup threw
    /\ pc = "loop" => handled = {remaining[k].id : k \in 1..(i - 1)}
    /\ pc \in {"cleanup", "done"} => Ids(remaining) \subseteq handled

\* A pass has completed in which a task without a start date was skipped
\* and the event of the task after it was created.
C14_Witness ==
    /\ pc = "done"
    /\ \E k, m \in 1..Len(remaining) :
        /\ k < m
        /\ remaining[k].dateStart = 0
        /\ remaining[k].id \in handled
        /\ remaining[m].id \in inserts
        /\ calendar[remaining[m].id] # NoEvent

\* Position of a fetched event in the list orphan cleanup goes through.
EventIndex(e) == CHOOSE k \in 1..Len(events) : events[k].id = e

\* C15: a delete answered 404 is passed like a delete that succeeded;
\* whatever the deletes before it were answered, cleanup has issued the
\* delete of every orphan up to its position, of every orphan once it is
\* through, and the process never dies between two deletes.
C15_DeleteErrorHandling ==
    /\ \A e \in notFound : e \in deletes /\ (pc = "cleanup" => j > EventIndex(e))
    /\ pc = "cleanup" =>
           deletes = {events[k].id : k \in {n \in 1..(j - 1) : events[n].id \notin knownIds}}
    /\ pc = "done" =>
           deletes = {events[k].id : k \in {n \in 1..Len(events) : events[n].id \notin knownIds}}
    /\ (pc = "crashed" /\ deletes # {}) => j > Len(events)

\* A pass has completed in which the delete of one orphan was answered 404
\* and the orphan after it was deleted.
C15_Witness ==
    /\ pc = "done"
    /\ \E e \in notFound, f \in deletes \ notFound :
        /\ EventIndex(e) < EventIndex(f)
        /\ calendar[f] = NoEvent

C17_SummaryProjection ==
    ret # NoCall =>
        ret.event.summary =
            Join(SelectSeq(<<arg.page.type, arg.page.category, arg.page.task>>,
                           NonEmptyStr))

WrittenInstant(dateStr) ==
    24 * DayOf(dateStr) + HourOf(dateStr)
    - (IF ZoneOf(dateStr) = NoZone THEN 0 ELSE OffsetOf(dateStr))

\* C19: on every host the date of an all-day event is the day written in
\* the task, and the start of a time-bound event is the instant written in
\* the dateStart of the task ('...T10:00:00' gives 10:00:00 UTC).
C19_DateValues ==
    ret # NoCall =>
        LET page == arg.page
            ev == ret.event
        IN  /\ "date" \in DOMAIN ev.start =>
                /\ ev.start.date = DayOf(page.dateStart)
                /\ ev.end.date = DayOf(IF page.dateEnd # 0 THEN page.dateEnd
                                                           ELSE page.dateStart)
            /\ ("dateTime" \in DOMAIN ev.start /\ HasTime(page.dateStart)) =>
                WrittenInstant(ev.start.dateTime) = WrittenInstant(page.dateStart)

\* C20: after a create or update call the mirror store differs from the one
\* the call started from only in the row of the event of the call; a create
\* whose insert was answered 2xx has made that row, an update whose call was
\* answered 2xx holds the candidate in that row, and after any other answer
\* (or no call) the mirror store is the one the call started from.
C20_MirrorOnSuccess ==
    ret # NoCall =>
        /\ \A e \in EventIds \ {ret.id} : mirror[e] = ret.before[e]
        /\ (ret.op = "createCalendarEvent" /\ ret.answer = "2xx") =>
               (ret.before[ret.id] = NoRecord /\ mirror[ret.id] = RecordOf(calendar[ret.id]))
        /\ (ret.op = "updateCalendarEvent" /\ ret.answer = "2xx") =>
               /\ ret.before[ret.id] # NoRecord
               /\ mirror[ret.id] # ret.before[ret.id]
               /\ mirror[ret.id] = RecordOf(arg.event)
        /\ ret.answer # "2xx" => mirror = ret.before

\* An update answered 2xx has replaced the row an earlier create made.
C20_Witness ==
    /\ ret # NoCall
    /\ ret.op = "updateCalendarEvent"
    /\ ret.answer = "2xx"
    /\ ret.before[ret.id] # NoRecord
    /\ mirror[ret.id] = RecordOf(calendar[ret.id])
    /\ mirror[ret.id] # ret.before[ret.id]

\* C21: when deleteEventsForDeletedNotionPages has returned, the row of an
\* orphan event is purged if and only if the event has been removed from
\* the calendar (its delete resolved or was answered 404); no row is purged
\* while the delete of its event is in flight or has been rejected.
C21_MirrorCalendarAgreement ==
    ret # NoCall =>
        \A e \in ret.eventsToDelete :
            /\ mirror[e] = NoRecord => e \in ret.removed \cup ret.notFound
            /\ (ret.returned /\ e \in ret.removed \cup ret.notFound) =>
                   mirror[e] = NoRecord

\* C22: a step that removes a row from the mirror store removes the row of
\* an event that is fully in the past, whose end lies before now; the row of
\* an event that has started and not ended, or that ends today or later,
\* stays.
C22_MirrorPruning ==
    [][\A e \in EventIds :
          (mirror[e] # NoRecord /\ mirror'[e] = NoRecord) => mirror[e].end < 24 * now]_vars

RECURSIVE Flatten(_)
\* The items of the pages of a listing, in order.
Flatten(listing) ==
    IF listing = <<>> THEN <<>> ELSE Head(listing) \o Flatten(Tail(listing))

\* C23: the requests and responses of a paginated fetch alternate, starting
\* with a request without cursor; every later request carries the cursor of
\* the response before it; no request follows a response without a next
\* cursor; and the fetch returns the items of all pages in order.
C23_SequentialPagination ==
    /\ \A n \in 1..Len(ret.log) :
        /\ n % 2 = 1 => ret.log[n].kind = "request"
        /\ n % 2 = 0 => ret.log[n].kind = "response"
        /\ n = 1 => ret.log[n].cursor = NoCursor
        /\ (n > 1 /\ n % 2 = 1) =>
               /\ ret.log[n - 1].next # NoCursor
               /\ ret.log[n].cursor = ret.log[n - 1].next
    /\ ret.inFlight <=> Len(ret.log) % 2 = 1
    /\ ret.returned =>
        /\ ret.log # <<>>
        /\ ret.log[Len(ret.log)].kind = "response"
        /\ ret.log[Len(ret.log)].next = NoCursor
        /\ ret.all = Flatten(arg.listing)

\* A fetch over three pages has returned after three requests, the second
\* page being empty.
C23_Witness ==
    /\ ret.returned
    /\ Len(arg.listing) = 3
    /\ arg.listing[2] = <<>>
    /\ Len(ret.all) = 3
    /\ Len(ret.log) = 6

\* The field of a Task that a property of the task store is normalized to.
FieldOf(name) ==
    IF name = "Type" THEN "type" ELSE IF name = "Priority" THEN "priority"
    ELSE IF name = "Description" THEN "description" ELSE "location"

\* C24: the fetch returns a Task for every record that has a `properties`
\* key, with '' in the field of every optional property the record lacks or
\* carries empty, and no TypeError is raised on the way.
C24_MissingOptional ==
    ret # NoCall =>
        /\ ~ret.caught
        /\ \A k \in 1..Len(arg.results) :
            \E m \in 1..Len(ret.tasks) :
                /\ ret.tasks[m].id = NormalizeId(arg.results[k].id)
                /\ \A n \in {"Type", "Priority", "Description", "Location"} :
                       (n \notin DOMAIN arg.results[k].properties
                        \/ arg.results[k].properties[n] = "")
                           => ret.tasks[m][FieldOf(n)] = ""

\* A page id without its hyphens.
Unhyphenated(raw) ==
    [k \in 1..Cardinality({n \in 1..Len(raw) : raw[n] # "-"}) |->
        raw[CHOOSE n \in 1..Len(raw) :
                /\ raw[n] # "-"
                /\ Cardinality({m \in 1..n : raw[m] # "-"}) = k]]

\* C25: every fetched Task carries the id of its record without the hyphens,
\* no two Tasks of a pass carry the same id, and that id is, unchanged, the
\* id of the event inserted or updated for the task, the key under which the
\* existing event is looked up, and the member of KnownIds.
C25_JoinKey ==
    /\ ~resp.failed /\ resp.bad = {} =>
           /\ Len(pages) = Cardinality(resp.ids)
           /\ Ids(pages) = {Unhyphenated(r) : r \in resp.ids}
    /\ \A k \in 1..Len(pages) : \A n \in 1..Len(pages[k].id) : pages[k].id[n] # "-"
    /\ \A k, m \in 1..Len(pages) : k # m => pages[k].id # pages[m].id
    /\ inserts \cup updates \subseteq Ids(remaining)
    /\ \A t \in updates : HasEvent(t) /\ GetEvent(t).id = t
    /\ \A t \in inserts : ~HasEvent(t)
    /\ \A t \in inserts \cup updates : calendar[t] # NoEvent => calendar[t].id = t
    /\ pc \in {"cleanup", "done"} =>
           /\ Ids(remaining) \subseteq knownIds
           /\ knownIds = Ids(remaining) \cup Ids(archivedPages)

\* A pass over two records with hyphenated ids has completed: it inserted
\* the event of one task and looked up the event of the other under the id
\* of the task, and both ids are in KnownIds.
C25_Witness ==
    /\ pc = "done"
    /\ Cardinality(resp.ids) = 2
    /\ \A r \in resp.ids : Len(Unhyphenated(r)) < Len(r)
    /\ \E t \in inserts, u \in Ids(remaining) \ inserts :
        /\ calendar[t].id = t
        /\ HasEvent(u)
        /\ GetEvent(u).id = u
        /\ {t, u} \subseteq knownIds

\* C26: every insert of the pass was issued for an id under which the
\* calendar held no event, and a dated task the loop has reached while the
\* calendar holds an event under its id is found by the lookup.
C26_ExistenceLookup ==
    /\ duplicates = {}
    /\ (InLoop /\ remaining[i].dateStart # 0 /\ calendar[remaining[i].id] # NoEvent) =>
           HasEvent(remaining[i].id)

\* The tasks whose archival write has succeeded in this pass.
ArchiveSucceeded == archiveIssued \ (pending \cup archiveFailed)

\* C27: the archival writes of all qualifying tasks are in flight together;
\* in whatever order they succeed or fail, the tasks in flight, the tasks
\* archived and the working set partition the fetched tasks, the working set
\* holds no task twice and every task as it was fetched, and a task whose
\* write succeeded gets no insert and no update in the pass.
C27_ArchivalPartition ==
    pc \notin {"idle", "archive"} =>
        /\ archiveIssued = {pages[k].id : k \in {n \in 1..Len(pages) : ShouldArchive(pages[n])}}
        /\ pending \subseteq archiveIssued
        /\ Ids(remaining) = Ids(pages) \ (pending \cup ArchiveSucceeded)
        /\ Len(remaining) = Cardinality(Ids(remaining))
        /\ \A k \in 1..Len(remaining) : \E n \in 1..Len(pages) : remaining[k] = pages[n]
        /\ pc # "archiving" =>
               /\ pending = {}
               /\ Len(remaining) = Len(pages) - Cardinality(ArchiveSucceeded)
        /\ \A t \in ArchiveSucceeded : t \notin inserts \cup updates

\* A pass has completed in which the writes of two tasks were in flight
\* together, the write of the first task succeeded, the write of the second
\* failed, and the second task alone was reconciled.
C27_Witness ==
    /\ pc = "done"
    /\ Len(pages) = 2
    /\ archiveIssued = Ids(pages)
    /\ pages[1].id \in ArchiveSucceeded
    /\ pages[2].id \in archiveFailed
    /\ Ids(remaining) = {pages[2].id}
    /\ pages[2].id \in inserts
    /\ pages[1].id \notin inserts \cup updates

\* C28: in a pass whose two queries were answered with well-formed records,
\* orphan cleanup issues no delete for the event of a task that the task
\* store holds, whatever the status of the task was at either query.
C28_SnapshotRace ==
    (~resp.failed /\ resp.bad = {} /\ ~aresp.failed /\ aresp.bad = {}) =>
        \A e \in deletes \cap TaskIds : store[RawOf(e)] = NoTask

\* C29 (original statement): the Archival Policy runs after the per-task
\* step: when an archival write has been issued every fetched task has been
\* gone through by the per-task loop, and a task the policy has archived
\* has been reconciled in the same pass.
C29_PassOrdering ==
    /\ archiveIssued # {} => Ids(pages) \subseteq handled
    /\ pc = "done" => ArchiveSucceeded \subseteq handled

\* C29 (amended): the steps of a pass occur in the order fetch and normalize
\* the active tasks, Archival Policy, fetch the calendar events, per-task
\* create/update/skip over the tasks the policy has left, fetch the archived
\* tasks, orphan cleanup; a task the policy has archived is not reconciled
\* in the pass in which it is archived.
C29_ArchivalFirst ==
    /\ pc \in {"archive", "archiving"} =>
           /\ events = <<>> /\ handled = {} /\ inserts \cup updates = {}
           /\ aresp = NoResp /\ archivedPages = <<>> /\ deletes = {}
    /\ pc = "archive" => archiveIssued = {}
    /\ pc = "loop" =>
           /\ pending = {}
           /\ handled = {remaining[k].id : k \in 1..(i - 1)}
           /\ aresp = NoResp /\ archivedPages = <<>> /\ knownIds = {} /\ deletes = {}
    /\ pc \in {"cleanup", "done"} =>
           /\ pending = {}
           /\ handled = Ids(remaining)
           /\ deletes \subseteq {events[k].id : k \in 1..(j - 1)}
    /\ deletes # {} => (pending = {} /\ Ids(remaining) \subseteq handled)
    /\ handled \cap ArchiveSucceeded = {}
    /\ (inserts \cup updates) \cap ArchiveSucceeded = {}

\* A pass has completed in which the policy archived one task, which the
\* per-task loop never reached, before the loop created the event of
\* another, and the archived-task query returned the archived task.
C29_Witness ==
    /\ pc = "done"
    /\ \E t \in ArchiveSucceeded, u \in inserts :
        /\ t \notin handled
        /\ t \in Ids(archivedPages)
        /\ t \notin Ids(remaining)
        /\ u \in handled
        /\ calendar[u] # NoEvent
        /\ calendar[t] = NoEvent

\* C30: a step of a pass issues at most one calendar write, an insert or an
\* update and never both, for the task the loop is at, which is in the
\* working set and has had no write before; the insert is issued when the
\* calendar holds no event under the id of the task and the update when it
\* holds one; a dated task without an event gets its insert; and a delete is
\* issued only when the loop has gone through every task.
C30_MinimalWrites ==
    [][~Idle =>
        LET newInserts == inserts' \ inserts
            newUpdates == updates' \ updates
        IN  /\ Cardinality(newInserts \cup newUpdates) <= 1
            /\ newInserts \cap newUpdates = {}
            /\ inserts' \cap updates' = {}
            /\ \A t \in newInserts \cup newUpdates :
                /\ pc = "loop" /\ i <= Len(remaining)
                /\ t = remaining[i].id
                /\ t \notin handled
            /\ \A t \in newInserts : calendar[t] = NoEvent
            /\ \A t \in newUpdates : calendar[t] # NoEvent
            /\ (pc = "loop" /\ i' = i + 1 /\ remaining[i].dateStart # 0
                    /\ calendar[remaining[i].id] = NoEvent) =>
                   newInserts = {remaining[i].id}
            /\ deletes' # deletes =>
                   (pc = "cleanup" /\ Ids(remaining) \subseteq handled)]_vars

\* C31: getEvent(E.id) after updateEventInDatabase(E) returns an event whose
\* summary, description, start, end and location are those of E, and
\* getEvent of an id without a row returns null.
C31_MirrorRoundTrip ==
    (ret # NoCall /\ ret.op = "getEvent") =>
        /\ ret.id = arg.event.id =>
               /\ ret.found
               /\ \A f \in {"summary", "description", "start", "end", "location"} :
                      ret.event[f] = arg.event[f]
        /\ ret.id # arg.event.id => ~ret.found

\* The first event of a list that carries the id.
FirstWith(list, e) == list[CHOOSE k \in 1..Len(list) :
                              /\ list[k].id = e
                              /\ \A n \in 1..(k - 1) : list[n].id # e]

\* C32: saveEventsToDatabase leaves every row the store held as it was, makes
\* at most one row for an id and none for an id that has one, has made a row
\* for every id of the list when it returns (of the first event that carries
\* the id) and no other row; a second call with the same events leaves the
\* store of the first.
C32_MirrorSeeding ==
    /\ \A e \in EventIds :
        /\ ret.before[e] # NoRecord => (mirror[e] = ret.before[e] /\ ret.made[e] = 0)
        /\ ret.made[e] <= 1
        /\ (ret.before[e] = NoRecord /\ mirror[e] # NoRecord) =>
               /\ ret.made[e] = 1
               /\ mirror[e] = RecordOf(FirstWith(arg.events, e))
        /\ ret.call >= 2 => (mirror[e] # NoRecord <=>
                                (ret.before[e] # NoRecord \/ e \in Ids(arg.events)))
    /\ ret.call >= 2 => mirror = ret.once

\* Both calls have returned: the store held an older row of one event of
\* the list, which is as it was, and a row was made for another event,
\* which the list names twice with different fields.
C32_Witness ==
    /\ ret.call = 3
    /\ \E e, f \in EventIds, k, m, n \in 1..Len(arg.events) :
        /\ e # f
        /\ ret.before[e] # NoRecord
        /\ arg.events[k].id = e
        /\ RecordOf(arg.events[k]) # ret.before[e]
        /\ mirror[e] = ret.before[e]
        /\ ret.before[f] = NoRecord
        /\ m < n
        /\ arg.events[m].id = f /\ arg.events[n].id = f
        /\ arg.events[m] # arg.events[n]
        /\ mirror[f] = RecordOf(arg.events[m])

\* C33: a pass sends at most one mail, sends it only when orphan cleanup is
\* through the fetched events, has sent it when it has run to its end, and
\* a pass in which the create or update call of a task failed with an error
\* has sent it too when the process has ended.
C33_RunReport ==
    /\ mailSent <= 1
    /\ mailSent = 1 =>
           (pc = "done" /\ j > Len(events) /\ Ids(remaining) \subseteq handled)
    /\ pc = "done" => mailSent = 1
    /\ (threw # {} /\ pc \in {"done", "crashed"}) => mailSent = 1

====
